---- MODULE Spec2Model ----
(***************************************************************************)
(* Model of the hex editor of src/main.rs: the HexEditor struct, its       *)
(* methods (open_file, save_file, edit_byte, get_cursor_offset,            *)
(* move_cursor, scroll, the cursor test of render) and the key handlers of *)
(* the main loop.  The file system behind fs::read / fs::write is the      *)
(* variable disk.                                                          *)
(***************************************************************************)
EXTENDS Integers, Sequences, FiniteSets, TLC

(* ------------------------------------------------------------------ *)
(* Program constants (src/main.rs:6-8)                                *)
(* ------------------------------------------------------------------ *)
HEIGHT == 40
BYTES_PER_ROW == 16

(* ------------------------------------------------------------------ *)
(* Bounds of the model                                                *)
(* ------------------------------------------------------------------ *)
\* length of the long file of the scrolling specification (over HEIGHT rows)
BigLen == 650
\* length of the short file of the scrolling specification
ShortLen == 20
\* length of the file of the editing specification
SmallLen == 2
\* largest |dx|, |dy| handed to move_cursor by a direct call
MaxDelta == 100
\* offsets handed to edit_byte by a direct call are 0..MaxOffset
MaxOffset == 3
\* inputs of the cursor-to-offset mapping taken alone: cells
\* (0..MaxCellX) x (0..MaxCellY), view offsets 0..MaxView, lengths up to MaxFnLen
MaxCellX == 60
MaxCellY == 2
MaxView == 17
MaxFnLen == 40

(* ------------------------------------------------------------------ *)
(* Helpers                                                            *)
(* ------------------------------------------------------------------ *)
Min(a, b) == IF a < b THEN a ELSE b
Max(a, b) == IF a > b THEN a ELSE b

\* Option<T>: None is the empty sequence, Some(v) a sequence of one element
None == <<>>
Some(v) == <<v>>
IsSome(o) == Len(o) = 1
Unwrap(o) == o[1]

\* usize::saturating_sub
saturating_sub(a, b) == IF a > b THEN a - b ELSE 0

\* a file of n bytes, all of value v
Fill(n, v) == [i \in 1..n |-> v]

(* ------------------------------------------------------------------ *)
(* State                                                              *)
(* ------------------------------------------------------------------ *)
VARIABLES
    rom_path,      \* Option<PathBuf>
    data,          \* Vec<u8>
    modified,      \* bool
    view_offset,   \* usize
    cursor_pos,    \* (usize, usize)
    disk,          \* the file system: path -> Option<content>
    last,          \* the last operation: its name, arguments and result, and
                   \* the view_offset it started from
    clean          \* the content last successfully loaded or saved

vars == <<rom_path, data, modified, view_offset, cursor_pos, disk, last, clean>>

Paths == {"a", "b"}

\* what get_input returns for a file name prompt (already trimmed)
Filenames == {"", "a", "b"}

(* ------------------------------------------------------------------ *)
(* HexEditor::new (src/main.rs:19-27); self is the record of the      *)
(* struct's fields                                                    *)
(* ------------------------------------------------------------------ *)
new ==
    [rom_path |-> None,
     data |-> <<>>,
     modified |-> FALSE,
     view_offset |-> 0,
     cursor_pos |-> <<0, 0>>]

(* ------------------------------------------------------------------ *)
(* Storage: fs::read fails on a path that names no file; fs::write    *)
(* replaces the file's content, or fails (w_ok = FALSE) and leaves it *)
(* ------------------------------------------------------------------ *)
fs_read(dk, path) == IF path \in DOMAIN dk THEN dk[path] ELSE None

fs_write(dk, path, bytes, w_ok) ==
    IF w_ok /\ path \in DOMAIN dk
    THEN [disk |-> [dk EXCEPT ![path] = Some(bytes)], ret |-> "ok"]
    ELSE [disk |-> dk, ret |-> "err"]

(* ------------------------------------------------------------------ *)
(* HexEditor::open_file (src/main.rs:30-37)                           *)
(* ------------------------------------------------------------------ *)
\* open_file without line 34: the view offset of the previous file is kept
open_file_keeps_view(self, dk, path) ==
    LET read == fs_read(dk, path)
    IN  IF IsSome(read)
        THEN [self |-> [self EXCEPT !.data = Unwrap(read),
                                    !.rom_path = Some(path),
                                    !.modified = FALSE],
              ret |-> "ok"]
        ELSE [self |-> self, ret |-> "err"]

\* open_file with line 35 before the read: the flag is cleared even when
\* the read fails
open_file_clears_first(self, dk, path) ==
    LET read == fs_read(dk, path)
    IN  IF IsSome(read)
        THEN [self |-> [self EXCEPT !.data = Unwrap(read),
                                    !.rom_path = Some(path),
                                    !.view_offset = 0,
                                    !.modified = FALSE],
              ret |-> "ok"]
        ELSE [self |-> [self EXCEPT !.modified = FALSE], ret |-> "err"]

\* open_file that also puts the cursor back at the origin
open_file_resets_cursor(self, dk, path) ==
    LET read == fs_read(dk, path)
    IN  IF IsSome(read)
        THEN [self |-> [self EXCEPT !.data = Unwrap(read),
                                    !.rom_path = Some(path),
                                    !.view_offset = 0,
                                    !.modified = FALSE,
                                    !.cursor_pos = <<0, 0>>],
              ret |-> "ok"]
        ELSE [self |-> self, ret |-> "err"]

\* open_file without line 33: the path of the file is not recorded
open_file_no_path(self, dk, path) ==
    LET read == fs_read(dk, path)
    IN  IF IsSome(read)
        THEN [self |-> [self EXCEPT !.data = Unwrap(read),
                                    !.view_offset = 0,
                                    !.modified = FALSE],
              ret |-> "ok"]
        ELSE [self |-> self, ret |-> "err"]

open_file(self, dk, path) ==
    LET read == fs_read(dk, path)
    IN  IF IsSome(read)
        THEN [self |-> [self EXCEPT !.data = Unwrap(read),
                                    !.rom_path = Some(path),
                                    !.view_offset = 0,
                                    !.modified = FALSE],
              ret |-> "ok"]
        ELSE [self |-> self, ret |-> "err"]

(* ------------------------------------------------------------------ *)
(* HexEditor::save_file (src/main.rs:40-47)                           *)
(* ------------------------------------------------------------------ *)
\* save_file with line 43 before the write: the flag is cleared even when
\* the write fails
save_file_clears_first(self, dk, w_ok) ==
    IF IsSome(self.rom_path)
    THEN LET w == fs_write(dk, Unwrap(self.rom_path), self.data, w_ok)
         IN  [self |-> [self EXCEPT !.modified = FALSE],
              disk |-> w.disk, ret |-> w.ret, wrote |-> w.ret = "ok"]
    ELSE [self |-> self, disk |-> dk, ret |-> "ok", wrote |-> FALSE]

save_file(self, dk, w_ok) ==
    IF IsSome(self.rom_path)
    THEN LET w == fs_write(dk, Unwrap(self.rom_path), self.data, w_ok)
         IN  IF w.ret = "ok"
             THEN [self |-> [self EXCEPT !.modified = FALSE],
                   disk |-> w.disk, ret |-> "ok", wrote |-> TRUE]
             ELSE [self |-> self, disk |-> w.disk, ret |-> "err", wrote |-> FALSE]
    ELSE [self |-> self, disk |-> dk, ret |-> "ok", wrote |-> FALSE]

(* ------------------------------------------------------------------ *)
(* HexEditor::edit_byte (src/main.rs:50-55)                           *)
(* ------------------------------------------------------------------ *)
\* edit_byte with line 53 after the if: the flag is set whatever the offset
edit_byte_flags_always(self, offset, value) ==
    IF offset < Len(self.data)
    THEN [self EXCEPT !.data = [self.data EXCEPT ![offset + 1] = value],
                      !.modified = TRUE]
    ELSE [self EXCEPT !.modified = TRUE]

\* edit_byte without line 53: the flag is never set
edit_byte_no_flag(self, offset, value) ==
    IF offset < Len(self.data)
    THEN [self EXCEPT !.data = [self.data EXCEPT ![offset + 1] = value]]
    ELSE self

edit_byte(self, offset, value) ==
    IF offset < Len(self.data)
    THEN [self EXCEPT !.data = [self.data EXCEPT ![offset + 1] = value],
                      !.modified = TRUE]
    ELSE self

(* ------------------------------------------------------------------ *)
(* HexEditor::get_cursor_offset (src/main.rs:58-72)                   *)
(* ------------------------------------------------------------------ *)
\* get_cursor_offset with <= for < in line 66: the offset one past the end
\* resolves
get_cursor_offset_le(self) ==
    LET x == self.cursor_pos[1]
        y == self.cursor_pos[2]
    IN  IF x >= 10 /\ x < 10 + BYTES_PER_ROW * 3 /\ x % 3 # 2
        THEN LET byte_idx == (x - 10) \div 3
                 offset == self.view_offset + y * BYTES_PER_ROW + byte_idx
             IN  IF offset <= Len(self.data) THEN Some(offset) ELSE None
        ELSE None

\* get_cursor_offset without the test of line 66
get_cursor_offset_unchecked(self) ==
    LET x == self.cursor_pos[1]
        y == self.cursor_pos[2]
    IN  IF x >= 10 /\ x < 10 + BYTES_PER_ROW * 3 /\ x % 3 # 2
        THEN LET byte_idx == (x - 10) \div 3
                 offset == self.view_offset + y * BYTES_PER_ROW + byte_idx
             IN  Some(offset)
        ELSE None

get_cursor_offset(self) ==
    LET x == self.cursor_pos[1]
        y == self.cursor_pos[2]
    IN  IF x >= 10 /\ x < 10 + BYTES_PER_ROW * 3 /\ x % 3 # 2
        THEN LET byte_idx == (x - 10) \div 3
                 offset == self.view_offset + y * BYTES_PER_ROW + byte_idx
             IN  IF offset < Len(self.data) THEN Some(offset) ELSE None
        ELSE None

(* ------------------------------------------------------------------ *)
(* HexEditor::move_cursor (src/main.rs:75-80)                         *)
(* ------------------------------------------------------------------ *)
\* move_cursor that keeps the cursor in the rows render displays:
\* HEIGHT - 10 for HEIGHT in line 77
move_cursor_in_rows(self, dx, dy) ==
    LET new_x == Min(Max(self.cursor_pos[1] + dx, 0), 10 + BYTES_PER_ROW * 3 - 1)
        new_y == Min(Max(self.cursor_pos[2] + dy, 0), HEIGHT - 10 - 1)
    IN  [self EXCEPT !.cursor_pos = <<new_x, new_y>>]

move_cursor(self, dx, dy) ==
    LET new_x == Min(Max(self.cursor_pos[1] + dx, 0), 10 + BYTES_PER_ROW * 3 - 1)
        new_y == Min(Max(self.cursor_pos[2] + dy, 0), HEIGHT - 1)
    IN  [self EXCEPT !.cursor_pos = <<new_x, new_y>>]

(* ------------------------------------------------------------------ *)
(* HexEditor::scroll (src/main.rs:83-90)                              *)
(* ------------------------------------------------------------------ *)
\* scroll that keeps the cursor on its byte: the cursor moves a row against
\* the view
scroll_moves_cursor(self, delta) ==
    IF delta < 0
    THEN [self EXCEPT !.view_offset = saturating_sub(self.view_offset, BYTES_PER_ROW),
                      !.cursor_pos = <<self.cursor_pos[1],
                                       Min(self.cursor_pos[2] + 1, HEIGHT - 1)>>]
    ELSE IF delta > 0
         THEN LET max_offset == saturating_sub(Len(self.data), HEIGHT * BYTES_PER_ROW)
              IN  [self EXCEPT !.view_offset =
                                   Min(self.view_offset + BYTES_PER_ROW, max_offset),
                               !.cursor_pos = <<self.cursor_pos[1],
                                                Max(self.cursor_pos[2] - 1, 0)>>]
         ELSE self

scroll(self, delta) ==
    IF delta < 0
    THEN [self EXCEPT !.view_offset = saturating_sub(self.view_offset, BYTES_PER_ROW)]
    ELSE IF delta > 0
         THEN LET max_offset == saturating_sub(Len(self.data), HEIGHT * BYTES_PER_ROW)
              IN  [self EXCEPT !.view_offset =
                                   Min(self.view_offset + BYTES_PER_ROW, max_offset)]
         ELSE self

(* ------------------------------------------------------------------ *)
(* HexEditor::render (src/main.rs:93-173): the rows it displays and   *)
(* the byte it prints in inverse video                                *)
(* ------------------------------------------------------------------ *)
visible_rows == HEIGHT - 10

\* the cell with the width of the printed address column, 12, for 10
cell_of_byte_col12(i, row_offset, display_row) ==
    <<(i - row_offset) * 3 + 12, display_row>>

\* the cell render compares the cursor with for byte i of the row that
\* starts at row_offset and is displayed as row display_row (line 144)
cell_of_byte(i, row_offset, display_row) ==
    <<(i - row_offset) * 3 + 10, display_row>>

\* the offsets of the bytes render prints (lines 113-116, 127-137, 143)
rendered_bytes(self) ==
    IF Len(self.data) = 0
    THEN {}
    ELSE LET end_offset == Min(self.view_offset + visible_rows * BYTES_PER_ROW,
                               Len(self.data))
         IN  self.view_offset .. (end_offset - 1)

\* the cell of the byte at offset o: render walks the rows from view_offset,
\* row_offset growing by BYTES_PER_ROW and display_row by 1 (lines 133-134,
\* 170-171)
cell_of_offset(o, vo) ==
    LET display_row == (o - vo) \div BYTES_PER_ROW
        row_offset == vo + display_row * BYTES_PER_ROW
    IN  cell_of_byte(o, row_offset, display_row)

\* the offsets of the bytes render prints highlighted (lines 143-151)
highlighted_bytes(self) ==
    {i \in rendered_bytes(self) :
        self.cursor_pos = cell_of_offset(i, self.view_offset)}

(* ------------------------------------------------------------------ *)
(* u8::from_str_radix(input, 16) (src/main.rs:267): a string is a     *)
(* sequence of one-character strings                                  *)
(* ------------------------------------------------------------------ *)
UpperDigits == <<"0", "1", "2", "3", "4", "5", "6", "7", "8", "9",
                 "A", "B", "C", "D", "E", "F">>
LowerDigits == <<"0", "1", "2", "3", "4", "5", "6", "7", "8", "9",
                 "a", "b", "c", "d", "e", "f">>

\* char::to_digit(16)
to_digit(c) ==
    IF \E i \in 1..16 : UpperDigits[i] = c
    THEN Some((CHOOSE i \in 1..16 : UpperDigits[i] = c) - 1)
    ELSE IF \E i \in 1..16 : LowerDigits[i] = c
         THEN Some((CHOOSE i \in 1..16 : LowerDigits[i] = c) - 1)
         ELSE None

RECURSIVE parse_digits(_, _)
\* accumulates the digits of s onto acc; None on an invalid digit or on a
\* value over u8::MAX
parse_digits(s, acc) ==
    IF s = <<>>
    THEN Some(acc)
    ELSE LET d == to_digit(Head(s))
         IN  IF ~IsSome(d)
             THEN None
             ELSE LET v == acc * 16 + Unwrap(d)
                  IN  IF v > 255 THEN None ELSE parse_digits(Tail(s), v)

from_str_radix(s) ==
    IF s = <<>>
    THEN None
    ELSE IF Head(s) = "+"
         THEN IF Tail(s) = <<>> THEN None ELSE parse_digits(Tail(s), 0)
         ELSE parse_digits(s, 0)

(* ------------------------------------------------------------------ *)
(* The editor's fields as a record, and their update                  *)
(* ------------------------------------------------------------------ *)
editor ==
    [rom_path |-> rom_path,
     data |-> data,
     modified |-> modified,
     view_offset |-> view_offset,
     cursor_pos |-> cursor_pos]

Becomes(self) ==
    /\ rom_path' = self.rom_path
    /\ data' = self.data
    /\ modified' = self.modified
    /\ view_offset' = self.view_offset
    /\ cursor_pos' = self.cursor_pos

\* op: the operation; args: its integer arguments; ret: its result
\* ("ok", "err", or why nothing was called); offset: the Option<usize> that
\* get_cursor_offset returned to it; view: view_offset before it
Did(op, args, ret, offset) ==
    last' = [op |-> op, args |-> args, ret |-> ret, offset |-> offset,
             view |-> view_offset]

(* ------------------------------------------------------------------ *)
(* The key handlers of the main loop (src/main.rs:211-282)            *)
(* ------------------------------------------------------------------ *)
\* Key::O (lines 213-222); filename is what get_input returned
KeyO(filename) ==
    IF filename = ""
    THEN /\ Becomes(editor)
         /\ UNCHANGED <<disk, clean>>
         /\ Did("open_file", <<>>, "skip", None)
    ELSE LET r == open_file(editor, disk, filename)
         IN  /\ Becomes(r.self)
             /\ clean' = IF r.ret = "ok" THEN r.self.data ELSE clean
             /\ UNCHANGED disk
             /\ Did("open_file", <<>>, r.ret, None)

\* Key::S (lines 224-236); filename is asked for only when no path is set
KeyS(filename, w_ok) ==
    LET named == IF editor.rom_path = None /\ filename # ""
                 THEN [editor EXCEPT !.rom_path = Some(filename)]
                 ELSE editor
        r == save_file(named, disk, w_ok)
    IN  /\ Becomes(r.self)
        /\ disk' = r.disk
        /\ clean' = IF r.wrote THEN r.self.data ELSE clean
        /\ Did("save_file", <<>>, r.ret, None)

\* Key::Up, Key::Down, Key::Left, Key::Right (lines 239-250)
KeyUp ==
    /\ Becomes(move_cursor(editor, 0, -1))
    /\ UNCHANGED <<disk, clean>>
    /\ Did("move_cursor", <<>>, "ok", None)

KeyDown ==
    /\ Becomes(move_cursor(editor, 0, 1))
    /\ UNCHANGED <<disk, clean>>
    /\ Did("move_cursor", <<>>, "ok", None)

KeyLeft ==
    /\ Becomes(move_cursor(editor, -3, 0))
    /\ UNCHANGED <<disk, clean>>
    /\ Did("move_cursor", <<>>, "ok", None)

KeyRight ==
    /\ Becomes(move_cursor(editor, 3, 0))
    /\ UNCHANGED <<disk, clean>>
    /\ Did("move_cursor", <<>>, "ok", None)

\* Key::PageUp, Key::PageDown (lines 253-258)
KeyPageUp ==
    /\ Becomes(scroll(editor, -10))
    /\ UNCHANGED <<disk, clean>>
    /\ Did("scroll_back", <<>>, "ok", None)

KeyPageDown ==
    /\ Becomes(scroll(editor, 10))
    /\ UNCHANGED <<disk, clean>>
    /\ Did("scroll_fwd", <<>>, "ok", None)

\* Key::Enter (lines 261-275); input is what get_input returned
KeyEnter(input) ==
    LET at == get_cursor_offset(editor)
    IN  /\ UNCHANGED <<disk, clean>>
        /\ IF IsSome(at)
           THEN LET offset == Unwrap(at)
                    value == from_str_radix(input)
                IN  IF input # <<>> /\ IsSome(value)
                    THEN /\ Becomes(edit_byte(editor, offset, Unwrap(value)))
                         /\ Did("edit_byte", <<offset, Unwrap(value)>>, "ok", at)
                    ELSE /\ Becomes(editor)
                         /\ Did("enter", <<>>,
                                IF input = <<>> THEN "skip" ELSE "err", at)
           ELSE /\ Becomes(editor)
                /\ Did("enter", <<>>, "none", at)

(* ------------------------------------------------------------------ *)
(* The program: the editor after HexEditor::new, driven by the keys.  *)
(* The command-line open of lines 189-195 is the open_file call of    *)
(* KeyO.                                                              *)
(* ------------------------------------------------------------------ *)
InitOn(self, dk) ==
    /\ rom_path = self.rom_path
    /\ data = self.data
    /\ modified = self.modified
    /\ view_offset = self.view_offset
    /\ cursor_pos = self.cursor_pos
    /\ disk = dk
    /\ last = [op |-> "new", args |-> <<>>, ret |-> "ok", offset |-> None,
               view |-> self.view_offset]
    /\ clean = self.data

Keys(inputs) ==
    \/ \E f \in Filenames : KeyO(f)
    \/ \E f \in Filenames, w_ok \in BOOLEAN : KeyS(f, w_ok)
    \/ KeyUp
    \/ KeyDown
    \/ KeyLeft
    \/ KeyRight
    \/ KeyPageUp
    \/ KeyPageDown
    \/ \E input \in inputs : KeyEnter(input)

(* ------------------------------------------------------------------ *)
(* Spec: the program on a small file, the user typing new byte values *)
(* ------------------------------------------------------------------ *)
\* what the user types at the edit prompt
EditInputs == {<<>>, <<"F", "F">>, <<"G">>, <<"1", "0", "0">>}

\* "a" is a file of SmallLen zero bytes, "b" does not exist
SmallDisk == [p \in Paths |-> IF p = "a" THEN Some(Fill(SmallLen, 0)) ELSE None]

Init == InitOn(new, SmallDisk)

Next == Keys(EditInputs)

Spec == Init /\ [][Next]_vars

(* ------------------------------------------------------------------ *)
(* SpecBig: the program on a file longer than the screen and a short  *)
(* one, the user typing the value the byte already has                *)
(* ------------------------------------------------------------------ *)
SameInputs == {<<>>, <<"0", "0">>, <<"G">>}

BigDisk ==
    [p \in Paths |-> IF p = "a" THEN Some(Fill(BigLen, 0))
                                ELSE Some(Fill(ShortLen, 0))]

InitBig == InitOn(new, BigDisk)

NextBig == Keys(SameInputs)

SpecBig == InitBig /\ [][NextBig]_vars

(* ------------------------------------------------------------------ *)
(* SpecApi: the methods of HexEditor called directly, with any        *)
(* arguments of bounded sets                                          *)
(* ------------------------------------------------------------------ *)
Deltas == {-MaxDelta, -3, 0, 3, MaxDelta}
Offsets == 0..MaxOffset
Values == {0, 255}

CallOpenFile(path) ==
    LET r == open_file(editor, disk, path)
    IN  /\ Becomes(r.self)
        /\ clean' = IF r.ret = "ok" THEN r.self.data ELSE clean
        /\ UNCHANGED disk
        /\ Did("open_file", <<>>, r.ret, None)

CallSaveFile(w_ok) ==
    LET r == save_file(editor, disk, w_ok)
    IN  /\ Becomes(r.self)
        /\ disk' = r.disk
        /\ clean' = IF r.wrote THEN r.self.data ELSE clean
        /\ Did("save_file", <<>>, r.ret, None)

CallEditByte(offset, value) ==
    /\ Becomes(edit_byte(editor, offset, value))
    /\ UNCHANGED <<disk, clean>>
    /\ Did("edit_byte", <<offset, value>>, "ok", None)

CallGetCursorOffset ==
    /\ UNCHANGED <<rom_path, data, modified, view_offset, cursor_pos, disk, clean>>
    /\ Did("get_cursor_offset", <<>>, "ok", get_cursor_offset(editor))

CallMoveCursor(dx, dy) ==
    /\ Becomes(move_cursor(editor, dx, dy))
    /\ UNCHANGED <<disk, clean>>
    /\ Did("move_cursor", <<>>, "ok", None)

CallScroll(delta) ==
    /\ Becomes(scroll(editor, delta))
    /\ UNCHANGED <<disk, clean>>
    /\ Did(IF delta < 0 THEN "scroll_back"
           ELSE IF delta > 0 THEN "scroll_fwd" ELSE "scroll_none",
           <<>>, "ok", None)

NextApi ==
    \/ \E path \in Filenames : CallOpenFile(path)
    \/ \E w_ok \in BOOLEAN : CallSaveFile(w_ok)
    \/ \E offset \in Offsets, value \in Values : CallEditByte(offset, value)
    \/ CallGetCursorOffset
    \/ \E dx \in Deltas, dy \in {-MaxDelta, 0, MaxDelta} : CallMoveCursor(dx, dy)
    \/ \E delta \in {-10, 0, 10} : CallScroll(delta)

SpecApi == Init /\ [][NextApi]_vars

(* ------------------------------------------------------------------ *)
(* SpecFn: get_cursor_offset taken alone, on every cursor cell, view  *)
(* offset and buffer length of bounded sets                           *)
(* ------------------------------------------------------------------ *)
FnLens == {0, 1, ShortLen, MaxFnLen}

InitFn ==
    \E x \in 0..MaxCellX, y \in 0..MaxCellY, vo \in 0..MaxView, len \in FnLens :
        InitOn([new EXCEPT !.cursor_pos = <<x, y>>,
                           !.view_offset = vo,
                           !.data = Fill(len, 0)],
               SmallDisk)

NextFn == CallGetCursorOffset

SpecFn == InitFn /\ [][NextFn]_vars

(* ================================================================== *)
(* Properties                                                         *)
(* ================================================================== *)
cellX == cursor_pos[1]
cellY == cursor_pos[2]

\* the largest view offset with visible_rows rows on screen
maxViewOffset(len) == Max(0, len - visible_rows * BYTES_PER_ROW)

RECURSIVE scroll_n(_, _, _)
\* scroll(delta) called n times
scroll_n(self, delta, n) ==
    IF n = 0 THEN self ELSE scroll_n(scroll(self, delta), delta, n - 1)

\* C1: get_cursor_offset returns an offset exactly for the cells with
\* cellX >= 10, cellX < 10 + 16*3, (cellX - 10) mod 3 # 2 and
\* viewOffset + cellY*16 + (cellX - 10) div 3 < len(bytes), and the offset is
\* then viewOffset + cellY*16 + (cellX - 10) div 3.
C1_OffsetForCell ==
    LET o == view_offset + cellY * 16 + (cellX - 10) \div 3
        resolves == /\ cellX >= 10
                    /\ cellX < 10 + 16 * 3
                    /\ (cellX - 10) % 3 # 2
                    /\ o < Len(data)
    IN  last.op = "get_cursor_offset"
            => last.offset = IF resolves THEN Some(o) ELSE None

\* C2 as stated: whenever get_cursor_offset returns an offset o, the cell
\* render derives for o, (10 + 3*((o - viewOffset) mod 16),
\* (o - viewOffset) div 16), is the cursor cell.
C2_RoundTrip ==
    (last.op = "get_cursor_offset" /\ IsSome(last.offset))
        => cell_of_offset(Unwrap(last.offset), view_offset) = cursor_pos

\* C2 as amended: whenever the cursor is on the first digit of a byte
\* ((cellX - 10) mod 3 = 0) and get_cursor_offset returns an offset o, the
\* cell render derives for o is the cursor cell.
C2_RoundTripFirstDigit ==
    (/\ last.op = "get_cursor_offset"
     /\ IsSome(last.offset)
     /\ (cellX - 10) % 3 = 0)
        => /\ cell_of_offset(Unwrap(last.offset), view_offset) = cursor_pos
           /\ cursor_pos = <<10 + 3 * ((Unwrap(last.offset) - view_offset) % 16),
                             (Unwrap(last.offset) - view_offset) \div 16>>

\* an offset was resolved for a first-digit cell below the first row, in a
\* scrolled view
C2_Witness ==
    /\ last.op = "get_cursor_offset"
    /\ IsSome(last.offset)
    /\ (cellX - 10) % 3 = 0
    /\ cellY > 0
    /\ view_offset > 0

\* C3: the cursor is always inside the grid: 0 <= cellX < 10 + 16*3 and
\* 0 <= cellY < visibleRows, the number of rows render displays.
C3_CursorInGrid ==
    /\ 0 <= cellX
    /\ cellX < 10 + 16 * 3
    /\ 0 <= cellY
    /\ cellY < visible_rows

\* C4: from every reachable state, scroll(Forward) repeated often enough
\* brings view_offset to max(0, len - visibleRows*16), where one more forward
\* scroll changes nothing; scroll(Backward) repeated brings it to 0, where
\* one more backward scroll changes nothing.
C4_ScrollConverges ==
    LET n == Len(data) \div BYTES_PER_ROW + 1
        fwd == scroll_n(editor, 10, n)
        back == scroll_n(editor, -10, n)
    IN  /\ fwd.view_offset = maxViewOffset(Len(data))
        /\ scroll(fwd, 10) = fwd
        /\ back.view_offset = 0
        /\ scroll(back, -10) = back

\* C5: view_offset is always a multiple of the row width.
C5_ViewAligned == view_offset % BYTES_PER_ROW = 0

\* C6: 0 <= view_offset <= max(0, len - visibleRows*16) in every reachable
\* state.
C6_ViewInRange ==
    /\ 0 <= view_offset
    /\ view_offset <= maxViewOffset(Len(data))

\* a shorter file has just been opened from a scrolled view
C6_Witness ==
    /\ last.op = "open_file"
    /\ last.ret = "ok"
    /\ last.view > 0
    /\ Len(data) > 0
    /\ Len(data) < BigLen

\* C7: edit_byte with offset >= len changes nothing: not the buffer, not
\* modified, not view_offset, the cursor or the path.
C7_EditOutOfRange ==
    [][(last'.op = "edit_byte" /\ last'.args[1] >= Len(data))
          => /\ data' = data
             /\ modified' = modified
             /\ view_offset' = view_offset
             /\ cursor_pos' = cursor_pos
             /\ rom_path' = rom_path]_vars

\* edit_byte has been called past the end of a loaded file
C7_Witness ==
    /\ last.op = "edit_byte"
    /\ last.args[1] >= Len(data)
    /\ Len(data) > 0
    /\ ~modified

\* C8: edit_byte with offset < len stores value at offset and sets modified;
\* the length, every other byte, view_offset, the cursor and the path stay.
C8_EditInRange ==
    [][(last'.op = "edit_byte" /\ last'.args[1] < Len(data))
          => /\ Len(data') = Len(data)
             /\ data'[last'.args[1] + 1] = last'.args[2]
             /\ \A i \in 1..Len(data) :
                    i # last'.args[1] + 1 => data'[i] = data[i]
             /\ modified' = TRUE
             /\ view_offset' = view_offset
             /\ cursor_pos' = cursor_pos
             /\ rom_path' = rom_path]_vars

\* edit_byte has stored a value in a buffer that holds another byte too
C8_Witness ==
    /\ last.op = "edit_byte"
    /\ last.args[1] < Len(data)
    /\ data[last.args[1] + 1] = 255
    /\ \E i \in 1..Len(data) : data[i] # 255
    /\ modified

\* C9: after every save that reports success, modified is false and the
\* file at the source path holds the whole buffer.
C9_SaveWritesBuffer ==
    (last.op = "save_file" /\ last.ret = "ok")
        => /\ modified = FALSE
           /\ IsSome(rom_path)
           /\ disk[Unwrap(rom_path)] = Some(data)

\* C10: when modified is false the buffer is the content last loaded or
\* saved.
C10_UnmodifiedIsClean == (modified = FALSE) => data = clean

\* an edited buffer has been saved
C10_Witness ==
    /\ last.op = "save_file"
    /\ last.ret = "ok"
    /\ modified = FALSE
    /\ \E i \in 1..Len(data) : data[i] = 255

\* C11: modified, once true, stays true across every command; only a
\* successful save or a successful load makes it false.
C11_ModifiedUntilSavedOrLoaded ==
    [][(modified /\ ~modified')
          => \/ /\ last'.op = "save_file"
                /\ last'.ret = "ok"
                /\ IsSome(rom_path')
                /\ disk'[Unwrap(rom_path')] = Some(data')
             \/ /\ last'.op = "open_file"
                /\ last'.ret = "ok"]_vars

\* a failed open has left the unsaved changes flagged
C11_Witness ==
    /\ modified
    /\ last.op = "open_file"
    /\ last.ret = "err"

\* C12: a failed open and a failed save leave bytes, modified, the path,
\* view_offset and the cursor as they were, also when the path of the save
\* had to be asked for first.
C12_StorageFailureChangesNothing ==
    [][(last'.op \in {"open_file", "save_file"} /\ last'.ret = "err")
          => /\ data' = data
             /\ modified' = modified
             /\ rom_path' = rom_path
             /\ view_offset' = view_offset
             /\ cursor_pos' = cursor_pos]_vars

\* C13: a scroll, backward or forward, leaves the cursor cell, the bytes,
\* modified and the path as they were; only view_offset may change.
C13_ScrollKeepsCursor ==
    [][(last'.op \in {"scroll_back", "scroll_fwd"})
          => /\ cursor_pos' = cursor_pos
             /\ data' = data
             /\ modified' = modified
             /\ rom_path' = rom_path]_vars

\* a scroll has moved the view under a cursor that is off the origin
C13_Witness ==
    /\ last.op \in {"scroll_back", "scroll_fwd"}
    /\ view_offset # last.view
    /\ cellX > 0
    /\ cellY > 0

\* C14: a successful load makes the buffer the bytes read, view_offset 0 and
\* modified false, records the path, and leaves the cursor cell as it was.
C14_LoadReplacesBuffer ==
    [][(last'.op = "open_file" /\ last'.ret = "ok")
          => /\ IsSome(rom_path')
             /\ disk[Unwrap(rom_path')] = Some(data')
             /\ view_offset' = 0
             /\ modified' = FALSE
             /\ cursor_pos' = cursor_pos]_vars

\* a file has been loaded from a scrolled view, with the cursor off the
\* origin
C14_Witness ==
    /\ last.op = "open_file"
    /\ last.ret = "ok"
    /\ last.view > 0
    /\ cellX > 0
    /\ cellY > 0
    /\ view_offset = 0

\* C15: with the navigation keys from the cursor (0,0), a cursor inside the
\* hex block [10, 58) is always on the first digit of a byte:
\* (cellX - 10) mod 3 = 0.
C15_CursorOnFirstDigit ==
    (cellX >= 10 /\ cellX < 10 + 16 * 3) => (cellX - 10) % 3 = 0

\* C16: with an empty buffer get_cursor_offset returns nothing for every
\* cursor cell, a scroll either way leaves view_offset at 0, and no move,
\* scroll or edit changes the bytes or sets modified.
C16_EmptyBufferInert ==
    /\ []((Len(data) = 0)
            => /\ get_cursor_offset(editor) = None
               /\ last.offset = None
               /\ last.op # "edit_byte"
               /\ view_offset = 0
               /\ scroll(editor, 10).view_offset = 0
               /\ scroll(editor, -10).view_offset = 0
               /\ ~modified)
    /\ [][(Len(data) = 0 /\ last'.op \notin {"open_file", "save_file"})
             => /\ data' = data
                /\ modified' = modified
                /\ view_offset' = view_offset]_vars

\* Enter was pressed on a cell of the hex block while an empty file was
\* loaded
C16_Witness ==
    /\ Len(data) = 0
    /\ IsSome(rom_path)
    /\ last.op = "enter"
    /\ cellX >= 10
    /\ cellX % 3 # 2
    /\ cellY = 0

\* C17: every offset get_cursor_offset returns is below len(bytes): cells of
\* the hex block past the end of the buffer resolve to nothing, also with the
\* cursor left in place after a shorter file was loaded, so the edit command
\* never addresses a byte that does not exist; with 20 bytes, cell (10,0)
\* gives 0, (10,1) gives 16 and (22,1) nothing.
C17_OffsetInBuffer ==
    LET at(x, y) == get_cursor_offset([editor EXCEPT !.cursor_pos = <<x, y>>,
                                                     !.view_offset = 0])
    IN  /\ IsSome(last.offset) => Unwrap(last.offset) < Len(data)
        /\ IsSome(get_cursor_offset(editor))
               => Unwrap(get_cursor_offset(editor)) < Len(data)
        /\ last.op = "edit_byte" => last.args[1] < Len(data)
        /\ Len(data) = 20
               => /\ at(10, 0) = Some(0)
                  /\ at(10, 1) = Some(16)
                  /\ at(22, 1) = None

\* Enter was pressed in the short file on a cell of the hex block that lies
\* past the end of the buffer
C17_Witness ==
    /\ last.op = "enter"
    /\ last.offset = None
    /\ Len(data) > 0
    /\ Len(data) < BigLen
    /\ cellX >= 10
    /\ cellX % 3 # 2
    /\ cellY = 1

RECURSIVE view_reach(_, _, _)
\* the view offsets that PageUp and PageDown reach from those of seen, of
\* which frontier are the new ones
view_reach(self, seen, frontier) ==
    IF frontier = {}
    THEN seen
    ELSE LET step == {scroll([self EXCEPT !.view_offset = vo], d).view_offset :
                          vo \in frontier, d \in {-10, 10}}
             fresh == step \ seen
         IN  view_reach(self, seen \cup fresh, fresh)

\* C18: after a load every byte of the file can be displayed: for every
\* offset o < len(bytes) some sequence of scrolls brings o among the bytes
\* render prints.
C18_EveryByteDisplayable ==
    (last.op = "open_file" /\ last.ret = "ok")
        => \A o \in 0..(Len(data) - 1) :
               \E vo \in view_reach(editor, {view_offset}, {view_offset}) :
                   o \in rendered_bytes([editor EXCEPT !.view_offset = vo])

\* what the navigation keys do to the cursor and the view of self
nav_steps(self) ==
    {move_cursor(self, 0, -1), move_cursor(self, 0, 1),
     move_cursor(self, -3, 0), move_cursor(self, 3, 0),
     scroll(self, -10), scroll(self, 10)}

\* the cursor and the view of self, and self with those of n
nav_of(self) == <<self.cursor_pos, self.view_offset>>
with_nav(self, n) == [self EXCEPT !.cursor_pos = n[1], !.view_offset = n[2]]

RECURSIVE nav_reach(_, _, _)
\* the cursors and views that the navigation keys reach from those of seen,
\* of which frontier are the new ones
nav_reach(self, seen, frontier) ==
    IF frontier = {}
    THEN seen
    ELSE LET step == UNION {{nav_of(s) : s \in nav_steps(with_nav(self, n))} :
                                n \in frontier}
             fresh == step \ seen
         IN  nav_reach(self, seen \cup fresh, fresh)

\* C19: every byte of the file can be selected: from the cursor (0,0) and
\* view_offset 0, for every offset o < len(bytes) some sequence of
\* navigation keys reaches a state where get_cursor_offset returns o.
C19_EveryByteSelectable ==
    (cursor_pos = <<0, 0>> /\ view_offset = 0 /\ last.op = "open_file")
        => LET reach == nav_reach(editor, {nav_of(editor)}, {nav_of(editor)})
               got == {get_cursor_offset(with_nav(editor, n)) : n \in reach}
           IN  \A o \in 0..(Len(data) - 1) : Some(o) \in got

\* the last byte of the long file is under the cursor
C19_Witness ==
    /\ Len(data) = BigLen
    /\ last.op = "enter"
    /\ last.offset = Some(Len(data) - 1)

\* C20: modified implies that a path is set and the buffer is not empty, so
\* a save requested with unsaved changes never takes the branch of save_file
\* that returns success without writing.
C20_ModifiedHasPath ==
    /\ modified => (IsSome(rom_path) /\ Len(data) > 0)
    /\ (last.op = "save_file" /\ last.ret = "ok" /\ ~IsSome(rom_path))
           => (~modified /\ Len(data) = 0)

\* a save was requested with unsaved changes, and the write failed
C20_Witness ==
    /\ modified
    /\ last.op = "save_file"
    /\ last.ret = "err"

====
